---- MODULE Spec2Model ----
(***************************************************************************)
(* Model of the FitSync progress service's event pipeline:                 *)
(*   - handle_booking_completed / handle_program_completed (src/main.py)   *)
(*   - subscribe_to_events, the Redis subscription loop     (src/main.py)  *)
(*   - log_workout, POST /api/workout-logs                  (src/main.py)  *)
(*   - publish_event and its three wrappers  (src/utils/event_publisher.py)*)
(* Python values are tagged records; JSON text is a sequence of tokens.    *)
(***************************************************************************)
EXTENDS Integers, Sequences, FiniteSets, TLC

(***************************************************************************)
(* Python values                                                           *)
(***************************************************************************)
None == [t |-> "null"]
Str(s) == [t |-> "str", s |-> s]
Num(n) == [t |-> "num", n |-> n]
List(xs) == [t |-> "list", xs |-> xs]
\* a dict keeps its items in insertion order, as a sequence of <<key, value>>
Dict(items) == [t |-> "dict", items |-> items]
\* an object json cannot serialise (uuid.UUID, datetime); str() gives repr
Obj(repr) == [t |-> "obj", repr |-> repr]

IsDict(v) == v.t = "dict"

\* Python truthiness, as used by `x or y` and `if x:`
Truthy(v) ==
    IF v.t = "null" THEN FALSE
    ELSE IF v.t = "str" THEN v.s # ""
    ELSE IF v.t = "num" THEN v.n # 0
    ELSE IF v.t = "list" THEN v.xs # <<>>
    ELSE IF v.t = "dict" THEN v.items # <<>>
    ELSE TRUE

\* str(v)
PyStr(v) ==
    IF v.t = "str" THEN v
    ELSE IF v.t = "null" THEN Str("None")
    ELSE IF v.t = "num" THEN Str(ToString(v.n))
    ELSE IF v.t = "obj" THEN Str(v.repr)
    ELSE Str("<container>")

HasKey(d, k) == \E i \in 1..Len(d.items) : d.items[i][1] = k

\* d.get(k), the default left out: a missing key gives None
Get_nodefault(d, k, default) ==
    IF HasKey(d, k)
      THEN d.items[CHOOSE i \in 1..Len(d.items) : d.items[i][1] = k][2]
      ELSE None

\* d.get(k, default), for d a dict
Get(d, k, default) ==
    IF HasKey(d, k)
      THEN d.items[CHOOSE i \in 1..Len(d.items) : d.items[i][1] = k][2]
      ELSE default

\* d[k] = v on the item sequence: an existing key keeps its position
DictSet(items, k, v) ==
    IF \E i \in 1..Len(items) : items[i][1] = k
      THEN [i \in 1..Len(items) |->
              IF items[i][1] = k THEN <<k, v>> ELSE items[i]]
      ELSE Append(items, <<k, v>>)

(***************************************************************************)
(* JSON text: a sequence of tokens <<kind, text>>                          *)
(***************************************************************************)
P(c) == <<"p", c>>      \* punctuation and the literal null
S(s) == <<"s", s>>      \* a string literal
\* a number as an encoder falling back on str() would write it
N_quoted(n) == <<"s", ToString(n)>>
N(n) == <<"n", n>>      \* a number literal
W(w) == <<"w", w>>      \* a bare word, never valid JSON

IsP(tk, c) == tk[1] = "p" /\ tk[2] = c

RECURSIVE json_dumps(_)
RECURSIVE DumpList(_, _)
RECURSIVE DumpItems(_, _)

\* json.dumps(v): [ok, toks]; ok = FALSE stands for the TypeError raised on
\* an object that is not JSON serialisable
json_dumps(v) ==
    IF v.t = "null" THEN [ok |-> TRUE, toks |-> <<P("null")>>]
    ELSE IF v.t = "str" THEN [ok |-> TRUE, toks |-> <<S(v.s)>>]
    ELSE IF v.t = "num" THEN [ok |-> TRUE, toks |-> <<N(v.n)>>]
    ELSE IF v.t = "list" THEN
        LET r == DumpList(v.xs, 1) IN
        IF r.ok THEN [ok |-> TRUE, toks |-> <<P("[")>> \o r.toks \o <<P("]")>>]
        ELSE r
    ELSE IF v.t = "dict" THEN
        LET r == DumpItems(v.items, 1) IN
        IF r.ok THEN [ok |-> TRUE, toks |-> <<P("{")>> \o r.toks \o <<P("}")>>]
        ELSE r
    ELSE [ok |-> FALSE, toks |-> <<>>]

DumpList(xs, i) ==
    IF i > Len(xs) THEN [ok |-> TRUE, toks |-> <<>>]
    ELSE LET h == json_dumps(xs[i])
             r == DumpList(xs, i + 1)
         IN IF h.ok /\ r.ok
              THEN [ok |-> TRUE,
                    toks |-> h.toks \o (IF i < Len(xs) THEN <<P(",")>> ELSE <<>>) \o r.toks]
              ELSE [ok |-> FALSE, toks |-> <<>>]

DumpItems(items, i) ==
    IF i > Len(items) THEN [ok |-> TRUE, toks |-> <<>>]
    ELSE LET h == json_dumps(items[i][2])
             r == DumpItems(items, i + 1)
         IN IF h.ok /\ r.ok
              THEN [ok |-> TRUE,
                    toks |-> <<S(items[i][1]), P(":")>> \o h.toks
                             \o (IF i < Len(items) THEN <<P(",")>> ELSE <<>>) \o r.toks]
              ELSE [ok |-> FALSE, toks |-> <<>>]

ParseFail == [ok |-> FALSE, v |-> None, next |-> 0]

RECURSIVE ParseValue(_, _)
RECURSIVE ParseElements(_, _, _)
RECURSIVE ParseMembers(_, _, _)

ParseValue(toks, i) ==
    IF i > Len(toks) THEN ParseFail
    ELSE LET tk == toks[i] IN
        IF tk[1] = "s" THEN [ok |-> TRUE, v |-> Str(tk[2]), next |-> i + 1]
        ELSE IF tk[1] = "n" THEN [ok |-> TRUE, v |-> Num(tk[2]), next |-> i + 1]
        ELSE IF IsP(tk, "null") THEN [ok |-> TRUE, v |-> None, next |-> i + 1]
        ELSE IF IsP(tk, "[") THEN
            IF i + 1 <= Len(toks) /\ IsP(toks[i + 1], "]")
              THEN [ok |-> TRUE, v |-> List(<<>>), next |-> i + 2]
              ELSE ParseElements(toks, i + 1, <<>>)
        ELSE IF IsP(tk, "{") THEN
            IF i + 1 <= Len(toks) /\ IsP(toks[i + 1], "}")
              THEN [ok |-> TRUE, v |-> Dict(<<>>), next |-> i + 2]
              ELSE ParseMembers(toks, i + 1, <<>>)
        ELSE ParseFail

ParseElements(toks, i, acc) ==
    LET r == ParseValue(toks, i) IN
    IF ~r.ok \/ r.next > Len(toks) THEN ParseFail
    ELSE IF IsP(toks[r.next], ",") THEN ParseElements(toks, r.next + 1, Append(acc, r.v))
    ELSE IF IsP(toks[r.next], "]")
      THEN [ok |-> TRUE, v |-> List(Append(acc, r.v)), next |-> r.next + 1]
    ELSE ParseFail

ParseMembers(toks, i, acc) ==
    IF i + 1 > Len(toks) \/ toks[i][1] # "s" \/ ~IsP(toks[i + 1], ":") THEN ParseFail
    ELSE LET r == ParseValue(toks, i + 2) IN
        IF ~r.ok \/ r.next > Len(toks) THEN ParseFail
        ELSE IF IsP(toks[r.next], ",")
          THEN ParseMembers(toks, r.next + 1, DictSet(acc, toks[i][2], r.v))
        ELSE IF IsP(toks[r.next], "}")
          THEN [ok |-> TRUE, v |-> Dict(DictSet(acc, toks[i][2], r.v)), next |-> r.next + 1]
        ELSE ParseFail

\* json.loads(text): [ok, v]; ok = FALSE stands for json.JSONDecodeError
json_loads(toks) ==
    LET r == ParseValue(toks, 1) IN
    IF r.ok /\ r.next = Len(toks) + 1 THEN [ok |-> TRUE, v |-> r.v]
    ELSE [ok |-> FALSE, v |-> None]

(***************************************************************************)
(* Event publisher, src/utils/event_publisher.py                           *)
(* A call's outcome is a record:                                           *)
(*   ret       the value returned to the caller (None when nothing is)     *)
(*   raised    TRUE when the call raised instead of returning              *)
(*   attempts  the redis_client.publish invocations made, in order         *)
(*   uuid_used TRUE when uuid.uuid4() was evaluated                        *)
(***************************************************************************)
Attempt(channel, payload, ok) == [channel |-> channel, payload |-> payload, ok |-> ok]

\* publish_event as it would be if it ignored the caller's correlation_id
publish_event_fresh(channel, event_data, correlation_id, ts, fresh, bus_ok) ==
    LET event == Dict(<< <<"event", Str(channel)>>,
                         <<"timestamp", Str(ts)>>,
                         <<"correlation_id", Str(fresh)>>,
                         <<"data", event_data>> >>)
        enc == json_dumps(event)
    IN  IF ~enc.ok
          THEN [ret |-> None, raised |-> FALSE, attempts |-> <<>>, uuid_used |-> TRUE]
        ELSE IF bus_ok
          THEN [ret |-> Str(fresh), raised |-> FALSE,
                attempts |-> <<Attempt(channel, enc.toks, TRUE)>>, uuid_used |-> TRUE]
        ELSE [ret |-> None, raised |-> FALSE,
              attempts |-> <<Attempt(channel, enc.toks, FALSE)>>, uuid_used |-> TRUE]

\* publish_event as it would be if a failed delivery were tried once more
publish_event_retry(channel, event_data, correlation_id, ts, fresh, bus_ok) ==
    LET uuid_used == ~Truthy(correlation_id)
        cid == IF Truthy(correlation_id) THEN correlation_id ELSE Str(fresh)
        event == Dict(<< <<"event", Str(channel)>>,
                         <<"timestamp", Str(ts)>>,
                         <<"correlation_id", cid>>,
                         <<"data", event_data>> >>)
        enc == json_dumps(event)
    IN  IF ~enc.ok
          THEN [ret |-> None, raised |-> FALSE, attempts |-> <<>>, uuid_used |-> uuid_used]
        ELSE IF bus_ok
          THEN [ret |-> cid, raised |-> FALSE,
                attempts |-> <<Attempt(channel, enc.toks, TRUE)>>, uuid_used |-> uuid_used]
        ELSE [ret |-> None, raised |-> FALSE,
              attempts |-> <<Attempt(channel, enc.toks, FALSE),
                             Attempt(channel, enc.toks, FALSE)>>,
              uuid_used |-> uuid_used]

\* publish_event as it would be without its try / except: a failed delivery
\* raises to the caller
publish_event_raising(channel, event_data, correlation_id, ts, fresh, bus_ok) ==
    LET uuid_used == ~Truthy(correlation_id)
        cid == IF Truthy(correlation_id) THEN correlation_id ELSE Str(fresh)
        event == Dict(<< <<"event", Str(channel)>>,
                         <<"timestamp", Str(ts)>>,
                         <<"correlation_id", cid>>,
                         <<"data", event_data>> >>)
        enc == json_dumps(event)
    IN  IF ~enc.ok
          THEN [ret |-> None, raised |-> TRUE, attempts |-> <<>>, uuid_used |-> uuid_used]
        ELSE IF bus_ok
          THEN [ret |-> cid, raised |-> FALSE,
                attempts |-> <<Attempt(channel, enc.toks, TRUE)>>, uuid_used |-> uuid_used]
        ELSE [ret |-> None, raised |-> TRUE,
              attempts |-> <<Attempt(channel, enc.toks, FALSE)>>, uuid_used |-> uuid_used]

\* publish_event(redis_client, channel, event_data, correlation_id); ts is
\* datetime.utcnow().isoformat(), fresh is str(uuid.uuid4()), bus_ok says
\* whether redis_client.publish returns rather than raises
publish_event(channel, event_data, correlation_id, ts, fresh, bus_ok) ==
    LET uuid_used == ~Truthy(correlation_id)
        cid == IF Truthy(correlation_id) THEN correlation_id ELSE Str(fresh)
        event == Dict(<< <<"event", Str(channel)>>,
                         <<"timestamp", Str(ts)>>,
                         <<"correlation_id", cid>>,
                         <<"data", event_data>> >>)
        enc == json_dumps(event)
    IN  IF ~enc.ok
          THEN \* TypeError from json.dumps, caught by the except clause
               [ret |-> None, raised |-> FALSE, attempts |-> <<>>, uuid_used |-> uuid_used]
        ELSE IF bus_ok
          THEN [ret |-> cid, raised |-> FALSE,
                attempts |-> <<Attempt(channel, enc.toks, TRUE)>>, uuid_used |-> uuid_used]
        ELSE \* the except clause logs and falls off the end of the function
             [ret |-> None, raised |-> FALSE,
              attempts |-> <<Attempt(channel, enc.toks, FALSE)>>, uuid_used |-> uuid_used]

AchievementRequiredKeys == {"id", "client_id", "achievement_type", "title"}

\* publish_achievement_earned as it would be if it handed the row's id and
\* client_id on as they are, without str()
publish_achievement_earned_raw(achievement_data, correlation_id, ts, fresh, bus_ok) ==
    IF \E k \in AchievementRequiredKeys : ~HasKey(achievement_data, k)
      THEN [ret |-> None, raised |-> TRUE, attempts |-> <<>>, uuid_used |-> FALSE]
      ELSE publish_event("achievement.earned",
             Dict(<< <<"achievement_id", Get(achievement_data, "id", None)>>,
                     <<"client_id", Get(achievement_data, "client_id", None)>>,
                     <<"type", Get(achievement_data, "achievement_type", None)>>,
                     <<"title", Get(achievement_data, "title", None)>>,
                     <<"description", Get(achievement_data, "description", Str(""))>>,
                     <<"badge_icon", Get(achievement_data, "badge_icon", Str(""))>> >>),
             correlation_id, ts, fresh, bus_ok)

\* publish_achievement_earned: the payload dict is built before publish_event
\* is entered, so a missing subscripted key raises KeyError to the caller
publish_achievement_earned(achievement_data, correlation_id, ts, fresh, bus_ok) ==
    IF \E k \in AchievementRequiredKeys : ~HasKey(achievement_data, k)
      THEN [ret |-> None, raised |-> TRUE, attempts |-> <<>>, uuid_used |-> FALSE]
      ELSE publish_event("achievement.earned",
             Dict(<< <<"achievement_id", PyStr(Get(achievement_data, "id", None))>>,
                     <<"client_id", PyStr(Get(achievement_data, "client_id", None))>>,
                     <<"type", Get(achievement_data, "achievement_type", None)>>,
                     <<"title", Get(achievement_data, "title", None)>>,
                     <<"description", Get(achievement_data, "description", Str(""))>>,
                     <<"badge_icon", Get(achievement_data, "badge_icon", Str(""))>> >>),
             correlation_id, ts, fresh, bus_ok)

publish_milestone_reached(milestone_data, correlation_id, ts, fresh, bus_ok) ==
    publish_event("milestone.reached", milestone_data, correlation_id, ts, fresh, bus_ok)

\* publish_progress_updated as it would be with the channel of its neighbour
publish_progress_updated_pasted(progress_data, correlation_id, ts, fresh, bus_ok) ==
    publish_event("milestone.reached", progress_data, correlation_id, ts, fresh, bus_ok)

publish_progress_updated(progress_data, correlation_id, ts, fresh, bus_ok) ==
    publish_event("progress.updated", progress_data, correlation_id, ts, fresh, bus_ok)

(***************************************************************************)
(* State                                                                   *)
(***************************************************************************)
VARIABLES
    workout_logs,   \* rows of table workout_logs, in insertion order
    achievements,   \* rows of table achievements, in insertion order
    pc,             \* per service instance: where its subscription task is
    cur,            \* per service instance: the handler's local (data / result)
    last_log,       \* per service instance: the last line it logged
    last_error,     \* per service instance: the last line it logged with logger.error
    received,       \* number of bus messages handed to subscription loops
    posts,          \* number of POST /api/workout-logs requests served
    bus,            \* outbound messages the bus accepted, in order
    bus_attempts,   \* number of redis_client.publish invocations made
    uuid_counter,   \* number of uuid.uuid4() values drawn
    results,        \* outcomes of the publisher calls made by direct callers
    subscribed,     \* per service instance: channels its pubsub object holds open
    lifespan,       \* per service instance: how far lifespan() has got
    db_pool,        \* per service instance: the global db_pool (None, open, closed)
    redis_client    \* per service instance: the global redis_client (None, open, closed)

vars == <<workout_logs, achievements, pc, cur, last_log, last_error, received, posts,
          bus, bus_attempts, uuid_counter, results, subscribed, lifespan,
          db_pool, redis_client>>

pipeline_vars == <<workout_logs, achievements, pc, cur, last_log, last_error,
                   received, posts, subscribed, lifespan,
                   db_pool, redis_client>>

\* bounds of the exploration
MaxMessages == 2
MaxPosts == 1
MaxCalls == 2

\* two deployed replicas of the service, each with its own subscription task
Instances == {"i1", "i2"}

Timestamps == {"2025-01-15T12:00:00"}

\* str(uuid.uuid4()): the n-th value drawn differs from every other one
FreshUuid(n) == "uuid-" \o ToString(n)

(***************************************************************************)
(* Data store: tables created by run_migrations                            *)
(***************************************************************************)
\* id UUID PRIMARY KEY DEFAULT uuid_generate_v4()
NewId(table, rows) == Obj(table \o "-" \o ToString(Len(rows) + 1))

\* workout_logs: client_id, workout_date, exercises_completed are NOT NULL;
\* booking_id is nullable and carries no UNIQUE constraint
WorkoutLogRow(rows, client_id, booking_id, workout_date, exercises, duration, notes) ==
    [id |-> NewId("workout_logs", rows),
     client_id |-> client_id,
     booking_id |-> booking_id,
     workout_date |-> workout_date,
     exercises_completed |-> exercises,
     total_duration_minutes |-> duration,
     trainer_notes |-> notes]

\* the table as it would be with UNIQUE (booking_id)
WorkoutLogAccepts_unique(rows, row) ==
    /\ row.client_id # None /\ row.workout_date # None /\ row.exercises_completed # None
    /\ row.booking_id # None =>
          \A k \in 1..Len(rows) : rows[k].booking_id # row.booking_id

\* whether INSERT INTO workout_logs accepts `row` given the rows present: only
\* the NOT NULL constraints apply, no constraint looks at the other rows
WorkoutLogAccepts(rows, row) ==
    row.client_id # None /\ row.workout_date # None /\ row.exercises_completed # None

\* achievements: client_id and title are NOT NULL
AchievementRow(rows, client_id, type, title, description, badge_icon) ==
    [id |-> NewId("achievements", rows),
     client_id |-> client_id,
     achievement_type |-> type,
     title |-> title,
     description |-> description,
     badge_icon |-> badge_icon]

\* whether INSERT INTO achievements accepts `row` given the rows present
AchievementAccepts(rows, row) == row.client_id # None /\ row.title # None

\* the existence check as it would be if it never found the row
SelectIdByBooking_blind(rows, booking_id) == None

\* SELECT id FROM workout_logs WHERE booking_id = $1, through fetchval: the
\* id of the first matching row or None; NULL = NULL matches no row
SelectIdByBooking(rows, booking_id) ==
    LET hits == {k \in 1..Len(rows) :
                    booking_id # None /\ rows[k].booking_id = booking_id}
    IN  IF hits = {} THEN None
        ELSE rows[CHOOSE k \in hits : \A j \in hits : k <= j].id

\* dict(result) of an achievements row returned by RETURNING *
RowAsDict(row) ==
    Dict(<< <<"id", row.id>>, <<"client_id", row.client_id>>,
            <<"achievement_type", row.achievement_type>>, <<"title", row.title>>,
            <<"description", row.description>>, <<"badge_icon", row.badge_icon>> >>)

\* the str json.dumps returns, kept as its tokens
Text(toks) == [t |-> "text", toks |-> toks]

DefaultDurationMinutes == 60

(***************************************************************************)
(* Inbound bus traffic: what upstream services and Redis hand to the loop  *)
(***************************************************************************)
Envelope(event, data) ==
    Dict(<< <<"event", Str(event)>>,
            <<"timestamp", Str("2025-01-15T12:00:00")>>,
            <<"correlation_id", Str("corr-upstream")>>,
            <<"data", data>> >>)

Message(type, channel, data) == [type |-> type, channel |-> channel, data |-> data]

DataMessage(channel, value) == Message("message", channel, json_dumps(value).toks)

BookingPayloads ==
    { Dict(<< <<"booking_id", Str("b1")>>, <<"client_id", Str("c1")>>,
              <<"workout_date", Str("2025-01-15")>> >>),
      Dict(<< <<"booking_id", Str("b2")>>, <<"client_id", Str("c1")>>,
              <<"workout_date", Str("2025-01-15")>>,
              <<"duration_minutes", Num(45)>>,
              <<"trainer_notes", Str("Great session")>> >>),
      \* one required field missing
      Dict(<< <<"client_id", Str("c1")>>, <<"workout_date", Str("2025-01-15")>> >>),
      Dict(<< <<"booking_id", Str("b1")>>, <<"workout_date", Str("2025-01-15")>> >>),
      Dict(<< <<"booking_id", Str("b1")>>, <<"client_id", Str("c1")>> >>) }

ProgramPayloads ==
    { Dict(<< <<"client_id", Str("c1")>>, <<"program_id", Str("p1")>> >>),
      Dict(<< <<"program_id", Str("p1")>> >>) }

InboundMessages ==
    { DataMessage("booking.completed", Envelope("booking.completed", d)) : d \in BookingPayloads }
    \cup
    { DataMessage("program.completed", Envelope("program.completed", d)) : d \in ProgramPayloads }
    \cup
    { \* "not valid json {"
      Message("message", "booking.completed", <<W("not"), W("valid"), W("json"), P("{")>>),
      \* valid JSON that is not an object
      DataMessage("booking.completed", List(<<>>)),
      \* the subscription confirmation Redis sends first
      Message("subscribe", "booking.completed", <<N(1)>>),
      \* a well-formed event on a channel the loop has no branch for
      DataMessage("session.completed",
                  Envelope("session.completed",
                           Dict(<< <<"booking_id", Str("b1")>>, <<"client_id", Str("c1")>>,
                                   <<"workout_date", Str("2025-01-15")>> >>))) }

\* await pubsub.subscribe('booking.completed', 'program.completed')
SubscribedChannels == {"booking.completed", "program.completed"}

\* the dispatch as it would be with a catch-all else branch
HandlerFor_catchall(channel) ==
    IF channel = "program.completed" THEN "handle_program_completed"
    ELSE "handle_booking_completed"

\* the if / elif on message['channel']: the handler awaited, "" for none
HandlerFor(channel) ==
    IF channel = "booking.completed" THEN "handle_booking_completed"
    ELSE IF channel = "program.completed" THEN "handle_program_completed"
    ELSE ""

(***************************************************************************)
(* Exceptions and the three except clauses they may meet                   *)
(***************************************************************************)
\* asyncio.CancelledError derives from BaseException, everything else
\* raised here from Exception
IsException(err) == err # "CancelledError"

\* the handlers as they would be without their except clause
HandlerCatches_none(where, err) == FALSE

\* `except Exception` closing handle_booking_completed / handle_program_completed
HandlerCatches(where, err) == where \in {"booking", "program"} /\ IsException(err)

\* the loop body as it would be without its try/except
LoopCatches_none(where, err) == FALSE

\* `except Exception` inside the `async for` body of subscribe_to_events
LoopCatches(where, err) == where \in {"booking", "program", "dispatch"} /\ IsException(err)

\* subscribe_to_events as it would be without its outer try / except
TaskCatches_none(err) == FALSE

\* `except Exception` around the whole of subscribe_to_events
TaskCatches(err) == IsException(err)

Log(msg, detail) == [msg |-> msg, detail |-> detail]

ChannelOf(where) == IF where = "booking" THEN "booking.completed" ELSE "program.completed"

\* where an exception raised at `where` ends up: the task's next position
\* and the line logged on the way
Outcome(where, err, prev_log) ==
    IF HandlerCatches(where, err)
      THEN [pc |-> "listen",
            log |-> Log("Error handling " \o ChannelOf(where) \o " event", err)]
    ELSE IF LoopCatches(where, err)
      THEN [pc |-> "listen", log |-> Log("Error processing event", err)]
    ELSE IF TaskCatches(err)
      THEN [pc |-> "finished", log |-> Log("Event subscription error", err)]
    ELSE [pc |-> "cancelled", log |-> prev_log]

\* instance i moves on, having logged `log` at info level (or nothing new)
Goto(i, pos, local, log) ==
    /\ pc' = [pc EXCEPT ![i] = pos]
    /\ cur' = [cur EXCEPT ![i] = local]
    /\ last_log' = [last_log EXCEPT ![i] = log]
    /\ UNCHANGED last_error

\* an exception is raised in instance i at `where`
Throw(i, where, err) ==
    LET o == Outcome(where, err, last_log[i])
    IN  /\ pc' = [pc EXCEPT ![i] = o.pc]
        /\ cur' = [cur EXCEPT ![i] = None]
        /\ last_log' = [last_log EXCEPT ![i] = o.log]
        /\ last_error' = [last_error EXCEPT
                              ![i] = IF o.pc = "cancelled" THEN @ ELSE o.log]

(***************************************************************************)
(* Initial state: lifespan has created the pool and the bus client, the    *)
(* tables are empty, every instance has subscribed and awaits a message    *)
(***************************************************************************)
Init ==
    /\ workout_logs = <<>>
    /\ achievements = <<>>
    /\ pc = [i \in Instances |-> "listen"]
    /\ cur = [i \in Instances |-> None]
    /\ last_log = [i \in Instances |-> Log("Subscribed to Redis events", "")]
    /\ last_error = [i \in Instances |-> Log("", "")]
    /\ received = 0
    /\ posts = 0
    /\ bus = <<>>
    /\ bus_attempts = 0
    /\ uuid_counter = 0
    /\ results = <<>>
    /\ subscribed = [i \in Instances |-> SubscribedChannels]
    /\ lifespan = [i \in Instances |-> "serving"]
    /\ db_pool = [i \in Instances |-> "open"]
    /\ redis_client = [i \in Instances |-> "open"]

(***************************************************************************)
(* subscribe_to_events: one iteration of `async for message in listen()`,  *)
(* up to the first store await of the handler it dispatches to             *)
(***************************************************************************)
\* handle_booking_completed, from entry to `async with db_pool.acquire()`
EnterBooking(i, event_data) ==
    IF ~IsDict(event_data) THEN Throw(i, "booking", "AttributeError")
    ELSE LET data == Get(event_data, "data", Dict(<<>>)) IN
        IF ~IsDict(data) THEN Throw(i, "booking", "AttributeError")
        ELSE \E acquired \in BOOLEAN :
            IF acquired
              THEN Goto(i, "bc_fetchval", data,
                        Log("Handling booking.completed event", ""))
              ELSE Throw(i, "booking", "PoolError")

\* handle_program_completed, from entry to `async with db_pool.acquire()`
EnterProgram(i, event_data) ==
    IF ~IsDict(event_data) THEN Throw(i, "program", "AttributeError")
    ELSE LET data == Get(event_data, "data", Dict(<<>>)) IN
        IF ~IsDict(data) THEN Throw(i, "program", "AttributeError")
        ELSE \E acquired \in BOOLEAN :
            IF acquired
              THEN Goto(i, "pc_fetchrow", data,
                        Log("Handling program.completed event", ""))
              ELSE Throw(i, "program", "PoolError")

\* await pubsub.subscribe('booking.completed', 'program.completed') on a new
\* pubsub object, then the info line; a failure is a bus-level error
Subscribe(i) ==
    /\ pc[i] = "subscribe"
    /\ \E ok \in BOOLEAN :
        IF ok
          THEN /\ subscribed' = [subscribed EXCEPT ![i] = SubscribedChannels]
               /\ Goto(i, "listen", None, Log("Subscribed to Redis events", ""))
          ELSE /\ Throw(i, "subscribe", "ConnectionError")
               /\ UNCHANGED subscribed
    /\ UNCHANGED <<workout_logs, achievements, received, posts, bus, bus_attempts,
                   uuid_counter, results, lifespan,
                   db_pool, redis_client>>

\* the loop as it would be if it took the next message without awaiting
\* the handler of the one before
Receive_fanout(i, m) ==
    /\ pc[i] \notin {"subscribe", "finished", "cancelled"}
    /\ received < MaxMessages
    /\ received' = received + 1
    /\ IF m.type # "message" THEN UNCHANGED <<pc, cur, last_log, last_error>>
       ELSE LET event_data == json_loads(m.data) IN
            IF ~event_data.ok THEN Throw(i, "dispatch", "JSONDecodeError")
            ELSE IF HandlerFor(m.channel) = "handle_booking_completed"
              THEN EnterBooking(i, event_data.v)
            ELSE IF HandlerFor(m.channel) = "handle_program_completed"
              THEN EnterProgram(i, event_data.v)
            ELSE UNCHANGED <<pc, cur, last_log, last_error>>
    /\ UNCHANGED <<workout_logs, achievements, posts, bus, bus_attempts,
                   uuid_counter, results, subscribed, lifespan,
                   db_pool, redis_client>>

\* the loop as it would be without the test of message['type']
Receive_untyped(i, m) ==
    /\ pc[i] = "listen"
    /\ received < MaxMessages
    /\ received' = received + 1
    /\ LET event_data == json_loads(m.data) IN
         IF ~event_data.ok THEN Throw(i, "dispatch", "JSONDecodeError")
         ELSE IF HandlerFor(m.channel) = "handle_booking_completed"
           THEN EnterBooking(i, event_data.v)
         ELSE IF HandlerFor(m.channel) = "handle_program_completed"
           THEN EnterProgram(i, event_data.v)
         ELSE UNCHANGED <<pc, cur, last_log, last_error>>
    /\ UNCHANGED <<workout_logs, achievements, posts, bus, bus_attempts,
                   uuid_counter, results, subscribed, lifespan,
                   db_pool, redis_client>>

\* one iteration of `async for message in pubsub.listen()`: the body awaits
\* the handler, so the next message is taken only once it has returned
Receive(i, m) ==
    /\ pc[i] = "listen"
    /\ received < MaxMessages
    /\ received' = received + 1
    /\ IF m.type # "message" THEN UNCHANGED <<pc, cur, last_log, last_error>>
       ELSE LET event_data == json_loads(m.data) IN
            IF ~event_data.ok THEN Throw(i, "dispatch", "JSONDecodeError")
            ELSE IF HandlerFor(m.channel) = "handle_booking_completed"
              THEN EnterBooking(i, event_data.v)
            ELSE IF HandlerFor(m.channel) = "handle_program_completed"
              THEN EnterProgram(i, event_data.v)
            ELSE UNCHANGED <<pc, cur, last_log, last_error>>
    /\ UNCHANGED <<workout_logs, achievements, posts, bus, bus_attempts,
                   uuid_counter, results, subscribed, lifespan,
                   db_pool, redis_client>>

\* pubsub.listen() (or the connection under it) raises
ListenError(i) ==
    /\ pc[i] = "listen"
    /\ Throw(i, "listen", "ConnectionError")
    /\ UNCHANGED <<workout_logs, achievements, received, posts, bus, bus_attempts,
                   uuid_counter, results, subscribed, lifespan,
                   db_pool, redis_client>>

(***************************************************************************)
(* handle_booking_completed, one action per store await                    *)
(***************************************************************************)
\* the existence check as it would be if a failed query were tried again
BookingFetchval_retrying(i) ==
    /\ pc[i] = "bc_fetchval"
    /\ \E ok \in BOOLEAN :
        IF ~ok
          THEN /\ UNCHANGED <<pc, cur>>
               /\ last_log' = [last_log EXCEPT
                     ![i] = Log("Error handling booking.completed event", "PostgresError")]
               /\ last_error' = [last_error EXCEPT
                     ![i] = Log("Error handling booking.completed event", "PostgresError")]
        ELSE LET existing == SelectIdByBooking(workout_logs,
                                               Get(cur[i], "booking_id", None))
             IN IF Truthy(existing)
                  THEN Goto(i, "listen", None,
                            Log("Workout log already exists",
                                PyStr(Get(cur[i], "booking_id", None)).s))
                  ELSE Goto(i, "bc_execute", cur[i], last_log[i])
    /\ UNCHANGED <<workout_logs, achievements, received, posts, bus, bus_attempts,
                   uuid_counter, results, subscribed, lifespan,
                   db_pool, redis_client>>

\* existing = await conn.fetchval(SELECT id ... WHERE booking_id = $1)
BookingFetchval(i) ==
    /\ pc[i] = "bc_fetchval"
    /\ \E ok \in BOOLEAN :
        IF ~ok THEN Throw(i, "booking", "PostgresError")
        ELSE LET existing == SelectIdByBooking(workout_logs,
                                               Get(cur[i], "booking_id", None))
             IN IF Truthy(existing)
                  THEN Goto(i, "listen", None,
                            Log("Workout log already exists",
                                PyStr(Get(cur[i], "booking_id", None)).s))
                  ELSE Goto(i, "bc_execute", cur[i], last_log[i])
    /\ UNCHANGED <<workout_logs, achievements, received, posts, bus, bus_attempts,
                   uuid_counter, results, subscribed, lifespan,
                   db_pool, redis_client>>

\* the insert as it would be if it announced the new row on the bus
BookingExecute_notifying(i) ==
    /\ pc[i] = "bc_execute"
    /\ LET data == cur[i]
           client_id == Get(data, "client_id", None)
           booking_id == Get(data, "booking_id", None)
           workout_date == Get(data, "workout_date", None)
           exercises == Text(json_dumps(List(<<>>)).toks)
           duration == Get(data, "duration_minutes", Num(DefaultDurationMinutes))
           notes == Get(data, "trainer_notes", Str(""))
           row == WorkoutLogRow(workout_logs, client_id, booking_id, workout_date,
                                exercises, duration, notes)
       IN \E ok \in BOOLEAN :
           IF ~ok
             THEN /\ Throw(i, "booking", "PostgresError")
                  /\ UNCHANGED <<workout_logs, bus, bus_attempts, uuid_counter>>
           ELSE IF ~WorkoutLogAccepts(workout_logs, row)
             THEN /\ Throw(i, "booking", "NotNullViolationError")
                  /\ UNCHANGED <<workout_logs, bus, bus_attempts, uuid_counter>>
           ELSE /\ workout_logs' = Append(workout_logs, row)
                /\ Goto(i, "listen", None,
                        Log("Auto-created workout log", PyStr(booking_id).s))
                /\ \E bus_ok \in BOOLEAN, ts \in Timestamps :
                      LET r == publish_event("progress.updated", data, None, ts,
                                             FreshUuid(uuid_counter + 1), bus_ok)
                      IN  /\ bus' = bus \o SelectSeq(r.attempts, LAMBDA a : a.ok)
                          /\ bus_attempts' = bus_attempts + Len(r.attempts)
                          /\ uuid_counter' = uuid_counter + (IF r.uuid_used THEN 1 ELSE 0)
    /\ UNCHANGED <<achievements, received, posts, results, subscribed, lifespan,
                   db_pool, redis_client>>

\* await conn.execute(INSERT INTO workout_logs ...)
BookingExecute(i) ==
    /\ pc[i] = "bc_execute"
    /\ LET data == cur[i]
           client_id == Get(data, "client_id", None)
           booking_id == Get(data, "booking_id", None)
           workout_date == Get(data, "workout_date", None)
           exercises == Text(json_dumps(List(<<>>)).toks)
           duration == Get(data, "duration_minutes", Num(DefaultDurationMinutes))
           notes == Get(data, "trainer_notes", Str(""))
           row == WorkoutLogRow(workout_logs, client_id, booking_id, workout_date,
                                exercises, duration, notes)
       IN \E ok \in BOOLEAN :
           IF ~ok
             THEN /\ Throw(i, "booking", "PostgresError")
                  /\ UNCHANGED workout_logs
           ELSE IF ~WorkoutLogAccepts(workout_logs, row)
             THEN /\ Throw(i, "booking", "NotNullViolationError")
                  /\ UNCHANGED workout_logs
           ELSE /\ workout_logs' = Append(workout_logs, row)
                /\ Goto(i, "listen", None,
                        Log("Auto-created workout log", PyStr(booking_id).s))
    /\ UNCHANGED <<achievements, received, posts, bus, bus_attempts,
                   uuid_counter, results, subscribed, lifespan,
                   db_pool, redis_client>>

(***************************************************************************)
(* handle_program_completed, one action per await                          *)
(***************************************************************************)
\* the insert as it would be behind a check for an earlier award
ProgramFetchrow_dedup(i) ==
    /\ pc[i] = "pc_fetchrow"
    /\ LET client_id == Get(cur[i], "client_id", None)
           title == Str("Completed Training Program")
           row == AchievementRow(achievements, client_id, Str("program_completion"),
                      title, Str("You've successfully completed your training program!"),
                      Str("program_complete.png"))
       IN \E ok \in BOOLEAN :
           IF ~ok
             THEN /\ Throw(i, "program", "PostgresError")
                  /\ UNCHANGED achievements
           ELSE IF ~AchievementAccepts(achievements, row)
             THEN /\ Throw(i, "program", "NotNullViolationError")
                  /\ UNCHANGED achievements
           ELSE IF \E k \in 1..Len(achievements) :
                      /\ achievements[k].client_id = client_id
                      /\ achievements[k].achievement_type = Str("program_completion")
             THEN /\ Goto(i, "listen", None, Log("Achievement already awarded", ""))
                  /\ UNCHANGED achievements
           ELSE /\ achievements' = Append(achievements, row)
                /\ Goto(i, "pc_publish", RowAsDict(row), last_log[i])
    /\ UNCHANGED <<workout_logs, received, posts, bus, bus_attempts,
                   uuid_counter, results, subscribed, lifespan,
                   db_pool, redis_client>>

\* the insert as it would be if its failure were swallowed and the handler
\* went on to announce the row it had built
ProgramFetchrow_unchecked(i) ==
    /\ pc[i] = "pc_fetchrow"
    /\ LET client_id == Get(cur[i], "client_id", None)
           title == Str("Completed Training Program")
           row == AchievementRow(achievements, client_id, Str("program_completion"),
                      title, Str("You've successfully completed your training program!"),
                      Str("program_complete.png"))
       IN \E ok \in BOOLEAN :
           IF ~ok \/ ~AchievementAccepts(achievements, row)
             THEN /\ Goto(i, "pc_publish", RowAsDict(row), last_log[i])
                  /\ UNCHANGED achievements
           ELSE /\ achievements' = Append(achievements, row)
                /\ Goto(i, "pc_publish", RowAsDict(row), last_log[i])
    /\ UNCHANGED <<workout_logs, received, posts, bus, bus_attempts,
                   uuid_counter, results, subscribed, lifespan,
                   db_pool, redis_client>>

\* the insert as it would be if it replaced the client's earlier award
ProgramFetchrow_replacing(i) ==
    /\ pc[i] = "pc_fetchrow"
    /\ LET client_id == Get(cur[i], "client_id", None)
           title == Str("Completed Training Program")
           row == AchievementRow(achievements, client_id, Str("program_completion"),
                      title, Str("You've successfully completed your training program!"),
                      Str("program_complete.png"))
       IN \E ok \in BOOLEAN :
           IF ~ok
             THEN /\ Throw(i, "program", "PostgresError")
                  /\ UNCHANGED achievements
           ELSE IF ~AchievementAccepts(achievements, row)
             THEN /\ Throw(i, "program", "NotNullViolationError")
                  /\ UNCHANGED achievements
           ELSE /\ achievements' = Append(SelectSeq(achievements,
                                              LAMBDA a : a.client_id # client_id), row)
                /\ Goto(i, "pc_publish", RowAsDict(row), last_log[i])
    /\ UNCHANGED <<workout_logs, received, posts, bus, bus_attempts,
                   uuid_counter, results, subscribed, lifespan,
                   db_pool, redis_client>>

\* result = await conn.fetchrow(INSERT INTO achievements ... RETURNING *)
ProgramFetchrow(i) ==
    /\ pc[i] = "pc_fetchrow"
    /\ LET client_id == Get(cur[i], "client_id", None)
           title == Str("Completed Training Program")
           row == AchievementRow(achievements, client_id, Str("program_completion"),
                      title, Str("You've successfully completed your training program!"),
                      Str("program_complete.png"))
       IN \E ok \in BOOLEAN :
           IF ~ok
             THEN /\ Throw(i, "program", "PostgresError")
                  /\ UNCHANGED achievements
           ELSE IF ~AchievementAccepts(achievements, row)
             THEN /\ Throw(i, "program", "NotNullViolationError")
                  /\ UNCHANGED achievements
           ELSE /\ achievements' = Append(achievements, row)
                /\ Goto(i, "pc_publish", RowAsDict(row), last_log[i])
    /\ UNCHANGED <<workout_logs, received, posts, bus, bus_attempts,
                   uuid_counter, results, subscribed, lifespan,
                   db_pool, redis_client>>

\* the bus after a publisher call: accepted messages, invocation count, uuids
BusAfter(r) ==
    /\ bus' = bus \o SelectSeq(r.attempts, LAMBDA a : a.ok)
    /\ bus_attempts' = bus_attempts + Len(r.attempts)
    /\ uuid_counter' = uuid_counter + (IF r.uuid_used THEN 1 ELSE 0)

\* await publish_achievement_earned(redis_client, dict(result))
ProgramPublish(i) ==
    /\ pc[i] = "pc_publish"
    /\ \E bus_ok \in BOOLEAN, ts \in Timestamps :
        LET r == publish_achievement_earned(cur[i], None, ts,
                                            FreshUuid(uuid_counter + 1), bus_ok)
        IN /\ BusAfter(r)
           /\ IF r.raised THEN Throw(i, "program", "KeyError")
              ELSE Goto(i, "listen", None,
                        Log("Achievement awarded", PyStr(Get(cur[i], "client_id", None)).s))
    /\ UNCHANGED <<workout_logs, achievements, received, posts, results,
                   subscribed, lifespan,
                   db_pool, redis_client>>

(***************************************************************************)
(* lifespan shutdown: subscription_task.cancel() throws CancelledError     *)
(* into the task at the await it is suspended on                           *)
(***************************************************************************)
WhereOf(pos) ==
    IF pos \in {"subscribe", "listen"} THEN pos
    ELSE IF pos \in {"bc_fetchval", "bc_execute"} THEN "booking"
    ELSE "program"

\* lifespan as it would be with a bare `await subscription_task`
LifespanCatches_none(err) == FALSE

\* `except asyncio.CancelledError: pass` around `await subscription_task`
LifespanCatches(err) == err = "CancelledError"

\* await init_db(): create_pool sets the global, then the migrations run;
\* either can raise, and lifespan raises with it
InitDb(i) ==
    /\ lifespan[i] = "init_db"
    /\ \E pool_created, migrated \in BOOLEAN :
        /\ db_pool' = [db_pool EXCEPT ![i] = IF pool_created THEN "open" ELSE @]
        /\ IF pool_created /\ migrated
             THEN /\ lifespan' = [lifespan EXCEPT ![i] = "init_redis"]
                  /\ last_log' = [last_log EXCEPT ![i] = Log("Migrations completed", "")]
             ELSE /\ lifespan' = [lifespan EXCEPT ![i] = "raised"]
                  /\ UNCHANGED last_log
    /\ UNCHANGED <<workout_logs, achievements, pc, cur, last_error, received, posts,
                   bus, bus_attempts, uuid_counter, results, subscribed, redis_client>>

\* await init_redis(), then subscription_task = asyncio.create_task(...) and
\* the yield: the application serves
InitRedis(i) ==
    /\ lifespan[i] = "init_redis"
    /\ \E connected \in BOOLEAN :
        IF connected
          THEN /\ redis_client' = [redis_client EXCEPT ![i] = "open"]
               /\ last_log' = [last_log EXCEPT ![i] = Log("Redis connected", "")]
               /\ pc' = [pc EXCEPT ![i] = "subscribe"]
               /\ lifespan' = [lifespan EXCEPT ![i] = "serving"]
          ELSE /\ lifespan' = [lifespan EXCEPT ![i] = "raised"]
               /\ UNCHANGED <<redis_client, last_log, pc>>
    /\ UNCHANGED <<workout_logs, achievements, cur, last_error, received, posts,
                   bus, bus_attempts, uuid_counter, results, subscribed, db_pool>>

\* the shutdown as it would be with cancel() alone, the task not awaited
Cancel_nowait(i) ==
    /\ lifespan[i] = "serving"
    /\ pc[i] \notin {"finished", "cancelled"}
    /\ lifespan' = [lifespan EXCEPT ![i] = "awaited"]
    /\ UNCHANGED <<workout_logs, achievements, pc, cur, last_log, last_error, received,
                   posts, bus, bus_attempts, uuid_counter, results, subscribed,
                   db_pool, redis_client>>

\* subscription_task.cancel() on a running task, then `await subscription_task`:
\* awaiting a cancelled task raises CancelledError in lifespan
Cancel(i) ==
    /\ lifespan[i] = "serving"
    /\ pc[i] \notin {"finished", "cancelled"}
    /\ Throw(i, WhereOf(pc[i]), "CancelledError")
    /\ lifespan' = [lifespan EXCEPT
                        ![i] = IF pc'[i] = "cancelled" /\ ~LifespanCatches("CancelledError")
                                 THEN "raised" ELSE "awaited"]
    /\ UNCHANGED <<workout_logs, achievements, received, posts, bus, bus_attempts,
                   uuid_counter, results, subscribed, db_pool, redis_client>>

\* the same two lines when the task has already returned: cancel() does
\* nothing and the await returns at once
StopFinished(i) ==
    /\ lifespan[i] = "serving"
    /\ pc[i] = "finished"
    /\ lifespan' = [lifespan EXCEPT ![i] = "awaited"]
    /\ UNCHANGED <<workout_logs, achievements, pc, cur, last_log, last_error, received,
                   posts, bus, bus_attempts, uuid_counter, results, subscribed,
                   db_pool, redis_client>>

\* await close_db(); await close_redis(): closing the client disconnects every
\* connection of its pool, the one the pubsub object listens on included
Close(i) ==
    /\ lifespan[i] = "awaited"
    /\ \E db_closed \in BOOLEAN :
        IF db_closed
          THEN /\ subscribed' = [subscribed EXCEPT ![i] = {}]
               /\ lifespan' = [lifespan EXCEPT ![i] = "closed"]
               /\ db_pool' = [db_pool EXCEPT ![i] = "closed"]
               /\ redis_client' = [redis_client EXCEPT ![i] = "closed"]
          ELSE /\ lifespan' = [lifespan EXCEPT ![i] = "raised"]
               /\ UNCHANGED <<subscribed, db_pool, redis_client>>
    /\ UNCHANGED <<workout_logs, achievements, pc, cur, last_log, last_error, received,
                   posts, bus, bus_attempts, uuid_counter, results>>

(***************************************************************************)
(* log_workout, POST /api/workout-logs: one INSERT, nothing checked first  *)
(***************************************************************************)
PostBookingIds == {None, Str("b1")}

LogWorkout(client_id, booking_id) ==
    /\ posts < MaxPosts
    /\ posts' = posts + 1
    /\ LET row == WorkoutLogRow(workout_logs, client_id, booking_id,
                                 Obj("date(2025, 1, 15)"),
                                 Text(json_dumps(List(<<>>)).toks), Num(30), None)
       IN \E ok \in BOOLEAN :
           IF ok /\ WorkoutLogAccepts(workout_logs, row)
             THEN workout_logs' = Append(workout_logs, row)
             ELSE UNCHANGED workout_logs
    /\ UNCHANGED <<achievements, pc, cur, last_log, last_error, received, bus,
                   bus_attempts, uuid_counter, results, subscribed, lifespan,
                   db_pool, redis_client>>

Next ==
    \/ \E i \in Instances, m \in InboundMessages : Receive(i, m)
    \/ \E i \in Instances : ListenError(i)
    \/ \E i \in Instances : BookingFetchval(i)
    \/ \E i \in Instances : BookingExecute(i)
    \/ \E i \in Instances : ProgramFetchrow(i)
    \/ \E i \in Instances : ProgramPublish(i)
    \/ \E i \in Instances : Cancel(i)
    \/ \E b \in PostBookingIds : LogWorkout(Str("c1"), b)

Spec == Init /\ [][Next]_vars

(***************************************************************************)
(* One service process on its own: a single subscription loop, and no      *)
(* client writing workout logs through the API                             *)
(***************************************************************************)
NextLoop ==
    \/ \E m \in InboundMessages : Receive("i1", m)
    \/ ListenError("i1")
    \/ BookingFetchval("i1")
    \/ BookingExecute("i1")
    \/ ProgramFetchrow("i1")
    \/ ProgramPublish("i1")
    \/ Cancel("i1")

SpecLoop == Init /\ [][NextLoop]_vars

(***************************************************************************)
(* One service process from startup to shutdown: lifespan has created the  *)
(* subscription task, which has yet to subscribe                           *)
(***************************************************************************)
InitLifespan ==
    /\ workout_logs = <<>>
    /\ achievements = <<>>
    /\ pc = [i \in Instances |-> "not_created"]
    /\ cur = [i \in Instances |-> None]
    /\ last_log = [i \in Instances |-> Log("", "")]
    /\ last_error = [i \in Instances |-> Log("", "")]
    /\ received = 0
    /\ posts = 0
    /\ bus = <<>>
    /\ bus_attempts = 0
    /\ uuid_counter = 0
    /\ results = <<>>
    /\ subscribed = [i \in Instances |-> {}]
    /\ lifespan = [i \in Instances |-> "init_db"]
    /\ db_pool = [i \in Instances |-> "None"]
    /\ redis_client = [i \in Instances |-> "None"]

NextLifespan ==
    \/ InitDb("i1")
    \/ InitRedis("i1")
    \/ Subscribe("i1")
    \/ \E m \in InboundMessages : Receive("i1", m)
    \/ ListenError("i1")
    \/ BookingFetchval("i1")
    \/ BookingExecute("i1")
    \/ ProgramFetchrow("i1")
    \/ ProgramPublish("i1")
    \/ Cancel("i1")
    \/ StopFinished("i1")
    \/ Close("i1")

SpecLifespan == InitLifespan /\ [][NextLifespan]_vars

(***************************************************************************)
(* The publisher called directly (as the tests and other callers do)       *)
(***************************************************************************)
CorrelationIds == {None, Str(""), Str("custom-correlation-123")}

EventInputs ==
    { Dict(<< <<"key", Str("value")>> >>),
      \* a payload json.dumps rejects
      Dict(<< <<"when", Obj("datetime(2025, 1, 15)")>> >>) }

AchievementInputs ==
    { Dict(<< <<"id", Obj("achievement-123-uuid")>>, <<"client_id", Str("client-123-uuid")>>,
              <<"achievement_type", Str("weight_milestone")>>,
              <<"title", Str("Lost 5kg!")>>, <<"description", Str("Lost 5kg")>>,
              <<"achieved_at", Obj("datetime(2025, 1, 15)")>>,
              <<"badge_icon", Str("weight_5kg.png")>> >>),
      \* optional keys left out
      Dict(<< <<"id", Obj("achievement-123-uuid")>>, <<"client_id", Str("client-123-uuid")>>,
              <<"achievement_type", Str("weight_milestone")>>,
              <<"title", Str("Lost 5kg!")>> >>),
      \* a subscripted key left out
      Dict(<< <<"id", Obj("achievement-123-uuid")>>, <<"client_id", Str("client-123-uuid")>>,
              <<"achievement_type", Str("weight_milestone")>> >>) }

MilestoneInputs ==
    { Dict(<< <<"client_id", Str("client-123")>>, <<"milestone_type", Str("weight_goal")>>,
              <<"value", Num(80)>> >>),
      \* nested values, a null and an empty string
      Dict(<< <<"client_id", Str("client-123")>>,
              <<"history", List(<<Num(85), Num(80)>>)>>,
              <<"goal", Dict(<< <<"unit", Str("kg")>>, <<"note", None>> >>)>>,
              <<"description", Str("")>> >>) }

ProgressInputs ==
    { Dict(<< <<"client_id", Str("client-123")>>, <<"metric_type", Str("weight")>>,
              <<"new_value", Num(84)>> >>) }

\* the caller's view of one finished call
CallRecord(fn, data, correlation_id, r) ==
    [fn |-> fn, data |-> data, correlation_id |-> correlation_id, ret |-> r.ret,
     raised |-> r.raised, attempts |-> r.attempts, uuid_used |-> r.uuid_used]

Called(fn, data, correlation_id, r) ==
    /\ Len(results) < MaxCalls
    /\ results' = Append(results, CallRecord(fn, data, correlation_id, r))
    /\ BusAfter(r)
    /\ UNCHANGED pipeline_vars

CallPublishEvent ==
    \E d \in EventInputs, c \in CorrelationIds, ts \in Timestamps, bus_ok \in BOOLEAN :
        Called("publish_event", d, c,
               publish_event("test.event", d, c, ts, FreshUuid(uuid_counter + 1), bus_ok))

CallPublishAchievementEarned ==
    \E d \in AchievementInputs, c \in CorrelationIds, ts \in Timestamps, bus_ok \in BOOLEAN :
        Called("publish_achievement_earned", d, c,
               publish_achievement_earned(d, c, ts, FreshUuid(uuid_counter + 1), bus_ok))

CallPublishMilestoneReached ==
    \E d \in MilestoneInputs, c \in CorrelationIds, ts \in Timestamps, bus_ok \in BOOLEAN :
        Called("publish_milestone_reached", d, c,
               publish_milestone_reached(d, c, ts, FreshUuid(uuid_counter + 1), bus_ok))

CallPublishProgressUpdated ==
    \E d \in ProgressInputs, c \in CorrelationIds, ts \in Timestamps, bus_ok \in BOOLEAN :
        Called("publish_progress_updated", d, c,
               publish_progress_updated(d, c, ts, FreshUuid(uuid_counter + 1), bus_ok))

NextPublisher ==
    \/ CallPublishEvent
    \/ CallPublishAchievementEarned
    \/ CallPublishMilestoneReached
    \/ CallPublishProgressUpdated

SpecPublisher == Init /\ [][NextPublisher]_vars

(***************************************************************************)
(* Outbound HTTP, src/utils/http_client.py. `outcome` is what                *)
(* `await client.get(...)` did: it returned a response or raised           *)
(***************************************************************************)
Response(status, body) == [kind |-> "response", status |-> status, body |-> body]

TransportError(name) == [kind |-> "error", name |-> name]

\* httpx.TimeoutException and the classes derived from it
IsTimeout(name) == name \in {"ConnectTimeout", "ReadTimeout", "WriteTimeout", "PoolTimeout"}

\* the statuses response.raise_for_status() raises HTTPStatusError for
IsErrorStatus(status) == status >= 400

Returned(v) == [kind |-> "return", value |-> v, type |-> "", detail |-> ""]

Raised(type, detail) == [kind |-> "raise", value |-> None, type |-> type, detail |-> detail]

\* the body of the try block shared by the three functions: get,
\* raise_for_status, response.json()
FetchJson(outcome) ==
    IF outcome.kind = "error" THEN Raised(outcome.name, "")
    ELSE IF IsErrorStatus(outcome.status)
      THEN Raised("HTTPStatusError", ToString(outcome.status))
    ELSE LET body == json_loads(outcome.body)
         IN  IF body.ok THEN Returned(body.v) ELSE Raised("JSONDecodeError", "")

\* validate_user as it would be if it took every error status for 404
validate_user_always404(user_id, outcome) ==
    LET r == FetchJson(outcome) IN
    IF r.kind = "raise" /\ r.type = "HTTPStatusError"
      THEN Raised("ValueError", "User " \o user_id \o " not found")
    ELSE IF r.kind = "raise" /\ (r.type = "ConnectError" \/ IsTimeout(r.type))
      THEN Raised("ConnectionError", "User service unavailable")
    ELSE r

\* validate_user(user_id, token): two except clauses, whatever they do not
\* name reaches the caller as it is
validate_user(user_id, outcome) ==
    LET r == FetchJson(outcome) IN
    IF r.kind = "raise" /\ r.type = "HTTPStatusError"
      THEN IF r.detail = "404"
             THEN Raised("ValueError", "User " \o user_id \o " not found")
             ELSE r
    ELSE IF r.kind = "raise" /\ (r.type = "ConnectError" \/ IsTimeout(r.type))
      THEN Raised("ConnectionError", "User service unavailable")
    ELSE r

\* get_booking_details as it would be if it caught HTTPStatusError only
get_booking_details_narrow(booking_id, outcome) ==
    LET r == FetchJson(outcome) IN
    IF r.kind = "raise" /\ r.type = "HTTPStatusError" THEN Returned(None) ELSE r

\* get_booking_details(booking_id, token): except Exception, return None
get_booking_details(booking_id, outcome) ==
    LET r == FetchJson(outcome) IN
    IF r.kind = "raise" /\ IsException(r.type) THEN Returned(None) ELSE r

\* get_program_details(program_id, token): except Exception, return None
get_program_details(program_id, outcome) ==
    LET r == FetchJson(outcome) IN
    IF r.kind = "raise" /\ IsException(r.type) THEN Returned(None) ELSE r

HttpStatuses == {200, 401, 404, 500}

ResponseBodies ==
    { json_dumps(Dict(<< <<"id", Str("user-123-uuid")>>, <<"role", Str("client")>> >>)).toks,
      \* an HTML error page: not JSON
      <<W("<html>")>> }

HttpOutcomes ==
    { Response(st, b) : st \in HttpStatuses, b \in ResponseBodies }
    \cup
    { TransportError(n) : n \in {"ConnectError", "ConnectTimeout", "ReadTimeout",
                                 "ReadError"} }

UserIds == {"user-123-uuid", "nonexistent"}

BookingIds == {"booking-123"}

ProgramIds == {"program-123"}

\* a caller awaits one of the three functions and keeps what came of it
HttpCalled(fn, id, outcome, result) ==
    /\ Len(results) < MaxCalls
    /\ results' = Append(results, [fn |-> fn, id |-> id, outcome |-> outcome,
                                    result |-> result])
    /\ UNCHANGED <<bus, bus_attempts, uuid_counter>>
    /\ UNCHANGED pipeline_vars

CallValidateUser ==
    \E id \in UserIds, o \in HttpOutcomes :
        HttpCalled("validate_user", id, o, validate_user(id, o))

CallGetBookingDetails ==
    \E id \in BookingIds, o \in HttpOutcomes :
        HttpCalled("get_booking_details", id, o, get_booking_details(id, o))

CallGetProgramDetails ==
    \E id \in ProgramIds, o \in HttpOutcomes :
        HttpCalled("get_program_details", id, o, get_program_details(id, o))

NextHttp ==
    \/ CallValidateUser
    \/ CallGetBookingDetails
    \/ CallGetProgramDetails

SpecHttp == Init /\ [][NextHttp]_vars

(***************************************************************************)
(* Properties                                                              *)
(***************************************************************************)
RowsFor(b) == {k \in 1..Len(workout_logs) : workout_logs[k].booking_id = b}

MessageErrors ==
    {"Error processing event", "Error handling booking.completed event",
     "Error handling program.completed event"}

\* C1: in every reachable state, whatever handler runs and POST
\* /api/workout-logs requests came before, no two workout_logs rows carry the
\* same non-null booking_id.
C1_AtMostOneRowPerBooking ==
    \A j, k \in 1..Len(workout_logs) :
        (j # k /\ workout_logs[j].booking_id # None)
            => workout_logs[j].booking_id # workout_logs[k].booking_id

\* C2: with a single subscription loop as the only writer, a booking_id never
\* has more than one row, and once a booking.completed delivery for booking b
\* has run to its end with the store succeeding (the handler logged that it
\* created the row or that the row exists) there is exactly one row for b:
\* a later delivery finds the row and inserts nothing.
C2_RedeliveryInsertsOnce ==
    /\ \A k \in 1..Len(workout_logs) :
           workout_logs[k].booking_id # None
               => Cardinality(RowsFor(workout_logs[k].booking_id)) = 1
    /\ \A i \in Instances :
           (/\ last_log[i].msg \in {"Workout log already exists", "Auto-created workout log"}
            /\ last_log[i].detail # "None")
               => Cardinality(RowsFor(Str(last_log[i].detail))) = 1

\* two deliveries for b1 were handled, the second found the row of the first
C2_Witness ==
    /\ received = 2
    /\ pc["i1"] = "listen"
    /\ last_log["i1"] = Log("Workout log already exists", "b1")
    /\ Cardinality(RowsFor(Str("b1"))) = 1

\* C3: the existence check and the insert are separate store steps: an
\* instance that has passed the check for a booking can always complete its
\* insert, whatever rows other instances have inserted since the check; so
\* two instances that both passed the check both insert.
C3_CheckThenInsertNotAtomic ==
    \A i \in Instances :
        (/\ pc[i] = "bc_execute"
         /\ Get(cur[i], "client_id", None) # None
         /\ Get(cur[i], "workout_date", None) # None)
            => ENABLED (/\ BookingExecute(i)
                        /\ Len(workout_logs') = Len(workout_logs) + 1
                        /\ workout_logs'[Len(workout_logs')].booking_id
                               = Get(cur[i], "booking_id", None))

\* both instances handled booking.completed for b2, both inserted
C3_Witness ==
    /\ \A i \in Instances : last_log[i] = Log("Auto-created workout log", "b2")
    /\ Cardinality(RowsFor(Str("b2"))) = 2

\* C4: handle_program_completed checks nothing before it inserts: a step
\* out of its INSERT either appends one new program_completion row for the
\* event's client_id, with an id no earlier row has, or ends in a store error
\* (or in cancellation); it never ends by finding an earlier achievement. So
\* n deliveries whose store steps succeed leave n rows.
C4_ProgramCompletedAlwaysInserts ==
    [][\A i \in Instances :
        (pc[i] = "pc_fetchrow" /\ pc'[i] # "pc_fetchrow") =>
            \/ /\ pc'[i] = "pc_publish"
               /\ Len(achievements') = Len(achievements) + 1
               /\ SubSeq(achievements', 1, Len(achievements)) = achievements
               /\ LET row == achievements'[Len(achievements')]
                  IN /\ row.achievement_type = Str("program_completion")
                     /\ row.client_id = Get(cur[i], "client_id", None)
                     /\ \A k \in 1..Len(achievements) : achievements[k].id # row.id
            \/ /\ pc'[i] = "listen"
               /\ achievements' = achievements
               /\ last_log'[i].msg = "Error handling program.completed event"
               /\ last_log'[i].detail = "NotNullViolationError"
                      => Get(cur[i], "client_id", None) = None
            \/ /\ pc'[i] = "cancelled"
               /\ achievements' = achievements
      ]_vars

\* the same program.completed event was handled twice: two distinct rows
C4_Witness ==
    /\ Len(achievements) = 2
    /\ achievements[1].id # achievements[2].id
    /\ \A k \in 1..2 : /\ achievements[k].client_id = Str("c1")
                       /\ achievements[k].achievement_type = Str("program_completion")

\* C5: a per-message failure never ends the subscription loop: the task has
\* finished only after a bus-level error, and an instance whose last line
\* is a per-message error is back listening (or was cancelled since).
C5_MessageFailureKeepsLoopListening ==
    \A i \in Instances :
        /\ pc[i] = "finished"
               => last_log[i] = Log("Event subscription error", "ConnectionError")
        /\ last_log[i].msg \in MessageErrors => pc[i] \in {"listen", "cancelled"}

\* a malformed message was dropped and the next message, a valid
\* booking.completed, was handled by the same loop: its row is in the store
C5_Witness ==
    \E i \in Instances :
        /\ last_error[i] = Log("Error processing event", "JSONDecodeError")
        /\ last_log[i] = Log("Auto-created workout log", "b1")
        /\ pc[i] = "listen"
        /\ received = 2
        /\ Cardinality(RowsFor(Str("b1"))) = 1

\* C6: the handlers never raise into the subscription loop: whichever store
\* step or publish step fails, the only error the loop body's own except
\* clause ever reports is a payload that failed to decode, and the only
\* error that ends the task is a bus error.
C6_HandlersNeverRaise ==
    \A i \in Instances :
        /\ last_error[i].msg = "Error processing event"
               => last_error[i].detail = "JSONDecodeError"
        /\ last_error[i].msg = "Event subscription error"
               => last_error[i].detail = "ConnectionError"

\* one handler swallowed a store error, the other returned normally after
\* its publish had failed
C6_Witness ==
    \E i, j \in Instances :
        /\ last_error[i] = Log("Error handling booking.completed event", "PostgresError")
        /\ pc[i] = "listen"
        /\ last_log[j].msg = "Achievement awarded"
        /\ pc[j] = "listen"
        /\ bus_attempts = 1
        /\ bus = <<>>

\* C7: the handler inserts no row for a booking.completed event that lacks
\* booking_id, client_id or workout_date: with the handler as the only
\* writer, every row has all three.
C7_MissingFieldDropped ==
    \A k \in 1..Len(workout_logs) :
        /\ workout_logs[k].booking_id # None
        /\ workout_logs[k].client_id # None
        /\ workout_logs[k].workout_date # None

(***************************************************************************)
(* Properties of the publisher                                             *)
(***************************************************************************)
\* the call reached redis_client.publish
Attempted(r) == r.attempts # <<>>

\* the bus accepted the call's message
Delivered(r) == Len(r.attempts) = 1 /\ r.attempts[1].ok

\* correlation_id of the envelope the call handed to the bus
SentCorrelationId(r) ==
    Get(json_loads(r.attempts[1].payload).v, "correlation_id", None)

IsNonEmptyStr(v) == v.t = "str" /\ v.s # ""

\* C8: every publish_event call made without a correlation_id returns a
\* non-empty id, whether the delivery succeeded or failed, and two such calls
\* return different ids.
C8_PublishReturnsFreshId ==
    \A j, k \in 1..Len(results) :
        (/\ results[k].fn = "publish_event"
         /\ results[k].correlation_id = None
         /\ Attempted(results[k]))
            => /\ IsNonEmptyStr(results[k].ret)
               /\ (/\ j # k
                   /\ results[j].fn = "publish_event"
                   /\ results[j].correlation_id = None
                   /\ Attempted(results[j]))
                      => results[j].ret # results[k].ret

\* C9 as stated: for every explicit correlation_id string, a delivered call
\* returns that string, sends it in the envelope and draws no fresh id.
C9_AnyExplicitIdIsUsed ==
    \A k \in 1..Len(results) :
        (results[k].correlation_id.t = "str" /\ Delivered(results[k]))
            => /\ results[k].ret = results[k].correlation_id
               /\ SentCorrelationId(results[k]) = results[k].correlation_id
               /\ ~results[k].uuid_used

\* C9: for every explicit non-empty correlation_id string, a delivered call
\* returns that string, sends it as the envelope's correlation_id and
\* draws no fresh id.
C9_NonEmptyExplicitIdIsUsed ==
    \A k \in 1..Len(results) :
        (IsNonEmptyStr(results[k].correlation_id) /\ Delivered(results[k]))
            => /\ results[k].ret = results[k].correlation_id
               /\ SentCorrelationId(results[k]) = results[k].correlation_id
               /\ ~results[k].uuid_used

\* publish_event was called with "custom-correlation-123" and delivered
C9_Witness ==
    \E k \in 1..Len(results) :
        /\ results[k].fn = "publish_event"
        /\ results[k].correlation_id = Str("custom-correlation-123")
        /\ Delivered(results[k])
        /\ bus # <<>>

\* C10: when the bus client fails to deliver, publish_event and its three
\* wrappers return without raising, the delivery is tried once only, and
\* the message is not on the bus.
C10_FireAndForget ==
    /\ \A k \in 1..Len(results) :
           /\ Len(results[k].attempts) <= 1
           /\ (Attempted(results[k]) /\ ~results[k].attempts[1].ok) => ~results[k].raised
    /\ bus_attempts
         = Len(bus) + Cardinality({k \in 1..Len(results) :
                                      Attempted(results[k]) /\ ~results[k].attempts[1].ok})

\* a failed delivery through publish_event and one through a wrapper
C10_Witness ==
    /\ Len(results) = 2
    /\ results[1].fn = "publish_event"
    /\ results[2].fn = "publish_achievement_earned"
    /\ \A k \in 1..2 : Attempted(results[k]) /\ ~results[k].attempts[1].ok
    /\ bus = <<>>

(***************************************************************************)
(* Properties of handle_program_completed's notification                   *)
(***************************************************************************)
\* data.achievement_id of an envelope the bus accepted
SentAchievementId(a) ==
    Get(Get(json_loads(a.payload).v, "data", None), "achievement_id", None)

\* C11: every message on the bus is an achievement.earned envelope carrying
\* the id of a row already in the store, no row is announced twice, a
\* failed insert leads to no publish attempt, and once no invocation is
\* between its insert and its publish every inserted row has had exactly
\* one publish attempt.
C11_InsertFollowedByOnePublish ==
    /\ \A k \in 1..Len(bus) :
           /\ bus[k].channel = "achievement.earned"
           /\ \E r \in 1..Len(achievements) :
                  SentAchievementId(bus[k]) = PyStr(achievements[r].id)
           /\ \A j \in 1..Len(bus) :
                  j # k => SentAchievementId(bus[j]) # SentAchievementId(bus[k])
    /\ bus_attempts <= Len(achievements)
    /\ (\A i \in Instances : pc[i] # "pc_publish") => bus_attempts = Len(achievements)

\* C12: when the delivery of achievement.earned fails (redis_client.publish
\* was invoked and the bus took no message), the step leaves the achievements
\* table as it was, the row of this invocation still in it, and the handler
\* returns to the loop with its success line and no error logged.
C12_FailedDeliveryKeepsRow ==
    [][\A i \in Instances :
        (/\ pc[i] = "pc_publish" /\ pc'[i] # pc[i]
         /\ bus_attempts' = bus_attempts + 1 /\ bus' = bus)
            => /\ achievements' = achievements
               /\ \E k \in 1..Len(achievements') : RowAsDict(achievements'[k]) = cur[i]
               /\ pc'[i] = "listen"
               /\ last_log'[i].msg = "Achievement awarded"
               /\ last_error'[i] = last_error[i]
      ]_vars

\* a program.completed event was handled to its end, its delivery failed,
\* its row is in the store
C12_Witness ==
    \E i \in Instances :
        /\ pc[i] = "listen"
        /\ last_log[i] = Log("Achievement awarded", "c1")
        /\ last_error[i] = Log("", "")
        /\ bus_attempts = 1
        /\ bus = <<>>
        /\ Len(achievements) = 1
        /\ achievements[1].client_id = Str("c1")

(***************************************************************************)
(* Properties of handle_booking_completed                                  *)
(***************************************************************************)
\* C13: no step of handle_booking_completed publishes: a delivery on
\* booking.completed entering the handler, the existence check and the
\* insert, whether they succeed, find the row or fail, leave the bus, the
\* count of publish invocations and the count of ids drawn unchanged.
C13_BookingHandlerPublishesNothing ==
    [][\A i \in Instances :
        (\/ pc[i] \in {"bc_fetchval", "bc_execute"} /\ pc'[i] # pc[i]
         \/ pc'[i] = "bc_fetchval" /\ pc[i] # pc'[i]
         \/ /\ last_log'[i].msg = "Error handling booking.completed event"
            /\ last_log'[i] # last_log[i])
            => UNCHANGED <<bus, bus_attempts, uuid_counter>>
      ]_vars

\* one instance has inserted the row for b2, the other was handed the
\* redelivery and found the row, and nothing was ever published
C13_Witness ==
    /\ last_log["i1"] = Log("Auto-created workout log", "b2")
    /\ last_log["i2"] = Log("Workout log already exists", "b2")
    /\ Cardinality(RowsFor(Str("b2"))) = 1
    /\ bus_attempts = 0
    /\ bus = <<>>

\* C14: the row an invocation of handle_booking_completed inserts has
\* exercises_completed the JSON text of the empty list,
\* total_duration_minutes the event's duration_minutes, or 60 when the event
\* has none, and trainer_notes the event's trainer_notes, or "" when the
\* event has none.
C14_InsertedRowDefaults ==
    [][\A i \in Instances :
        (/\ pc[i] = "bc_execute" /\ pc'[i] # pc[i]
         /\ Len(workout_logs') = Len(workout_logs) + 1)
            => LET row == workout_logs'[Len(workout_logs')]
               IN  /\ json_loads(row.exercises_completed.toks) = [ok |-> TRUE, v |-> List(<<>>)]
                   /\ row.total_duration_minutes
                        = IF HasKey(cur[i], "duration_minutes")
                            THEN cur[i].items[CHOOSE n \in 1..Len(cur[i].items) :
                                     cur[i].items[n][1] = "duration_minutes"][2]
                            ELSE Num(60)
                   /\ row.trainer_notes
                        = IF HasKey(cur[i], "trainer_notes")
                            THEN cur[i].items[CHOOSE n \in 1..Len(cur[i].items) :
                                     cur[i].items[n][1] = "trainer_notes"][2]
                            ELSE Str("")
      ]_vars

\* the loop has handled the event for b1, which supplies neither field,
\* and the one for b2, which supplies both: one row with the defaults, one
\* with the event's values
C14_Witness ==
    /\ Len(workout_logs) = 2
    /\ \E j, k \in 1..2 :
        /\ workout_logs[j].booking_id = Str("b1")
        /\ workout_logs[j].total_duration_minutes = Num(60)
        /\ workout_logs[j].trainer_notes = Str("")
        /\ workout_logs[j].exercises_completed = Text(<<P("["), P("]")>>)
        /\ workout_logs[k].booking_id = Str("b2")
        /\ workout_logs[k].total_duration_minutes = Num(45)
        /\ workout_logs[k].trainer_notes = Str("Great session")
        /\ workout_logs[k].exercises_completed = Text(<<P("["), P("]")>>)

(***************************************************************************)
(* Properties of the subscription loop and of lifespan                     *)
(***************************************************************************)
\* the positions of a task inside a handler invocation
InHandler == {"bc_fetchval", "bc_execute", "pc_fetchrow", "pc_publish"}

\* C15: within one service process a message is taken from the stream only
\* while no handler invocation is in progress (the task is waiting in
\* listen() with no handler local alive), one message per step, and a
\* handler invocation starts only in the step that takes a message: the
\* invocation for the next message starts after the one before has returned.
C15_OneMessageAtATime ==
    [][\A i \in Instances :
        /\ (received' # received /\ <<pc'[i], cur'[i], last_log'[i]>> # <<pc[i], cur[i], last_log[i]>>)
               => pc[i] = "listen" /\ cur[i] = None /\ received' = received + 1
        /\ (pc'[i] \in {"bc_fetchval", "pc_fetchrow"} /\ pc'[i] # pc[i])
               => pc[i] = "listen" /\ received' = received + 1
        /\ pc[i] \in InHandler => received' = received
      ]_vars

\* the first message, a program.completed event, was handled to the end of
\* its publish before the handler of the second message, now in progress,
\* was entered
C15_Witness ==
    /\ received = 2
    /\ pc["i1"] = "bc_execute"
    /\ Len(achievements) = 1
    /\ bus_attempts = 1
    /\ workout_logs = <<>>

\* C16: cancellation signalled while the task waits for the next message
\* ends the task there and then, lifespan's await of the task swallows the
\* CancelledError (shutdown goes on, nothing is raised, nothing is logged as
\* an error), and a cancelled task never moves again: no message is taken
\* and neither store nor bus changes after it.
C16_CancelWhileWaiting ==
    [][\A i \in Instances :
        /\ (pc[i] = "listen" /\ lifespan[i] = "serving" /\ lifespan'[i] # "serving")
               => /\ pc'[i] = "cancelled"
                  /\ lifespan'[i] = "awaited"
                  /\ last_error'[i] = last_error[i]
                  /\ last_log'[i] = last_log[i]
        /\ pc[i] = "cancelled"
               => /\ pc'[i] = "cancelled"
                  /\ UNCHANGED <<received, workout_logs, achievements, bus, bus_attempts>>
      ]_vars

\* the loop handled one message, was cancelled while waiting for the next,
\* and shutdown went on to close the store and the bus client
C16_Witness ==
    /\ pc["i1"] = "cancelled"
    /\ last_log["i1"] = Log("Auto-created workout log", "b1")
    /\ received = 1
    /\ lifespan["i1"] = "closed"

\* C17: a handler invocation in progress when cancellation is signalled
\* runs to completion: the task leaves a position inside a handler only by
\* the handler's own next step, never by being terminated there; in
\* particular an invocation that has inserted its achievements row always
\* goes on to its publish attempt and returns to the loop.
C17_InFlightHandlerCompletes ==
    [][\A i \in Instances :
        /\ (pc[i] \in InHandler /\ pc'[i] # pc[i]) => pc'[i] # "cancelled"
        /\ (pc[i] = "pc_publish" /\ pc'[i] # pc[i])
               => bus_attempts' = bus_attempts + 1 /\ pc'[i] = "listen"
      ]_vars

\* C18: once the subscription task has ended by cancellation, its pubsub
\* object holds no subscription any more: booking.completed and
\* program.completed have been unsubscribed or the object closed.
C18_SubscriptionReleasedOnExit ==
    \A i \in Instances : pc[i] = "cancelled" => subscribed[i] = {}

\* C19: the task ends by itself only on a bus-level error, raised by
\* subscribing or by the message stream; the error is logged as the
\* subscription error and the task returns instead of raising; from then on
\* the task never moves again: it subscribes to nothing, takes no message,
\* and neither store nor bus changes.
C19_BusErrorEndsLoopForGood ==
    [][\A i \in Instances :
        /\ (pc'[i] \in {"finished", "cancelled"} /\ pc'[i] # pc[i] /\ lifespan'[i] = lifespan[i])
               => /\ pc[i] \in {"subscribe", "listen"}
                  /\ pc'[i] = "finished"
                  /\ last_error'[i] = Log("Event subscription error", "ConnectionError")
        /\ pc[i] = "finished"
               => /\ pc'[i] = "finished"
                  /\ subscribed'[i] \subseteq subscribed[i]
                  /\ UNCHANGED <<received, workout_logs, achievements, bus, bus_attempts>>
      ]_vars

\* the loop handled a message, then the message stream raised: the task
\* has returned with the error logged, and shutdown later found it done
C19_Witness ==
    /\ pc["i1"] = "finished"
    /\ last_error["i1"] = Log("Event subscription error", "ConnectionError")
    /\ received = 1
    /\ Len(workout_logs) = 1
    /\ lifespan["i1"] = "awaited"

\* C20: the loop subscribes to booking.completed and program.completed and
\* to nothing else; a data message that decodes is handed to the handler of
\* its channel and to no other: one on booking.completed enters
\* handle_booking_completed (its entry line or its error line is logged), one
\* on program.completed enters handle_program_completed, and one on any
\* other channel leaves the task exactly as it was.
C20_DispatchByChannel ==
    [][\A i \in Instances :
        /\ subscribed[i] \in {{}, {"booking.completed", "program.completed"}}
        /\ (pc[i] = "subscribe" /\ pc'[i] = "listen")
               => subscribed'[i] = {"booking.completed", "program.completed"}
        /\ \A m \in InboundMessages :
            (Receive(i, m) /\ m.type = "message" /\ json_loads(m.data).ok)
                => /\ m.channel = "booking.completed"
                        => /\ pc'[i] \in {"bc_fetchval", "listen"}
                           /\ last_log'[i].msg \in {"Handling booking.completed event",
                                                    "Error handling booking.completed event"}
                   /\ m.channel = "program.completed"
                        => /\ pc'[i] \in {"pc_fetchrow", "listen"}
                           /\ last_log'[i].msg \in {"Handling program.completed event",
                                                    "Error handling program.completed event"}
                   /\ m.channel \notin {"booking.completed", "program.completed"}
                        => /\ pc'[i] = "listen" /\ cur'[i] = cur[i]
                           /\ last_log'[i] = last_log[i] /\ last_error'[i] = last_error[i]
      ]_vars

\* a booking.completed message went through handle_booking_completed (its
\* row is in the store) and a program.completed message is inside
\* handle_program_completed (its row is in the store, its publish pending)
C20_Witness ==
    /\ subscribed["i1"] = {"booking.completed", "program.completed"}
    /\ received = 2
    /\ Len(workout_logs) = 1
    /\ workout_logs[1].booking_id = Str("b2")
    /\ pc["i1"] = "pc_publish"
    /\ Len(achievements) = 1

(***************************************************************************)
(* Properties of the publisher's wrappers and of the envelope codec        *)
(***************************************************************************)
\* the envelope a call handed to redis_client.publish, decoded
SentEnvelope(r) == json_loads(r.attempts[1].payload).v

\* C21: a publish_achievement_earned call given an achievement that has id,
\* client_id, achievement_type and title invokes redis_client.publish
\* exactly once, on channel achievement.earned, with an envelope whose event
\* is achievement.earned and whose data has exactly the keys achievement_id,
\* client_id, type, title, description, badge_icon, valued str(id),
\* str(client_id), achievement_type, title, description and badge_icon of the
\* achievement ("" for a description or badge_icon it does not have).
C21_AchievementEarnedPayload ==
    \A k \in 1..Len(results) :
        (/\ results[k].fn = "publish_achievement_earned"
         /\ \A key \in AchievementRequiredKeys : HasKey(results[k].data, key))
            => LET a == results[k].data
                   r == results[k]
               IN  /\ ~r.raised
                   /\ Len(r.attempts) = 1
                   /\ r.attempts[1].channel = "achievement.earned"
                   /\ json_loads(r.attempts[1].payload).ok
                   /\ Get(SentEnvelope(r), "event", None) = Str("achievement.earned")
                   /\ Get(SentEnvelope(r), "data", None)
                        = Dict(<< <<"achievement_id", PyStr(Get(a, "id", None))>>,
                                  <<"client_id", PyStr(Get(a, "client_id", None))>>,
                                  <<"type", Get(a, "achievement_type", None)>>,
                                  <<"title", Get(a, "title", None)>>,
                                  <<"description", Get(a, "description", Str(""))>>,
                                  <<"badge_icon", Get(a, "badge_icon", Str(""))>> >>)
                   /\ Get(Get(SentEnvelope(r), "data", None), "achievement_id", None).t = "str"
                   /\ Get(Get(SentEnvelope(r), "data", None), "client_id", None).t = "str"

\* the achievement of the tests, whose id is a UUID object, was published
\* and delivered: the bus holds its message with the id as a string
C21_Witness ==
    \E k \in 1..Len(results) :
        /\ results[k].fn = "publish_achievement_earned"
        /\ Get(results[k].data, "id", None) = Obj("achievement-123-uuid")
        /\ Get(results[k].data, "title", None) = Str("Lost 5kg!")
        /\ Delivered(results[k])
        /\ Len(bus) >= 1
        /\ Get(Get(SentEnvelope(results[k]), "data", None), "achievement_id", None)
             = Str("achievement-123-uuid")

\* C22: a publish_milestone_reached call invokes redis_client.publish
\* exactly once on channel milestone.reached, a publish_progress_updated
\* call exactly once on channel progress.updated, each with an envelope
\* whose event is the channel name and whose data is the caller's mapping,
\* key for key and value for value.
C22_PassThroughWrappers ==
    \A k \in 1..Len(results) :
        LET r == results[k]
            channel == IF r.fn = "publish_milestone_reached" THEN "milestone.reached"
                       ELSE "progress.updated"
        IN  r.fn \in {"publish_milestone_reached", "publish_progress_updated"}
               => /\ ~r.raised
                  /\ Len(r.attempts) = 1
                  /\ r.attempts[1].channel = channel
                  /\ json_loads(r.attempts[1].payload).ok
                  /\ Get(SentEnvelope(r), "event", None) = Str(channel)
                  /\ Get(SentEnvelope(r), "data", None) = r.data

\* a milestone mapping with nested values and a progress mapping were both
\* published and delivered
C22_Witness ==
    /\ Len(results) = 2
    /\ results[1].fn = "publish_milestone_reached"
    /\ HasKey(results[1].data, "history")
    /\ results[2].fn = "publish_progress_updated"
    /\ \A k \in 1..2 : Delivered(results[k])
    /\ Len(bus) = 2
    /\ bus[1].channel = "milestone.reached"
    /\ bus[2].channel = "progress.updated"

\* the envelopes publish_event may have built for a recorded call: event is
\* the channel, timestamp a clock reading, correlation_id the caller's id
\* or one of the ids drawn so far, data what the wrapper handed over
BuiltEnvelopes(r) ==
    LET data == IF r.fn = "publish_achievement_earned"
                  THEN Dict(<< <<"achievement_id", PyStr(Get(r.data, "id", None))>>,
                               <<"client_id", PyStr(Get(r.data, "client_id", None))>>,
                               <<"type", Get(r.data, "achievement_type", None)>>,
                               <<"title", Get(r.data, "title", None)>>,
                               <<"description", Get(r.data, "description", Str(""))>>,
                               <<"badge_icon", Get(r.data, "badge_icon", Str(""))>> >>)
                  ELSE r.data
        cids == IF Truthy(r.correlation_id) THEN {r.correlation_id}
                ELSE {Str(FreshUuid(n)) : n \in 1..uuid_counter}
    IN  { Dict(<< <<"event", Str(r.attempts[1].channel)>>,
                  <<"timestamp", Str(ts)>>,
                  <<"correlation_id", cid>>,
                  <<"data", data>> >>) : ts \in Timestamps, cid \in cids }

\* C23: the text every publisher call hands to the bus is the encoding of
\* the envelope {event, timestamp, correlation_id, data} it built, and
\* decoding that text as the subscription loop does (json.loads) succeeds
\* and gives back that envelope, equal key for key and value for value.
C23_EnvelopeRoundTrip ==
    \A k \in 1..Len(results) :
        Attempted(results[k])
            => \E e \in BuiltEnvelopes(results[k]) :
                  /\ json_dumps(e) = [ok |-> TRUE, toks |-> results[k].attempts[1].payload]
                  /\ json_loads(results[k].attempts[1].payload) = [ok |-> TRUE, v |-> e]

\* an envelope whose data holds a number, a list, a nested dict, a null
\* and an empty string went over the bus
C23_Witness ==
    \E k \in 1..Len(results) :
        /\ Delivered(results[k])
        /\ HasKey(results[k].data, "history")
        /\ HasKey(results[k].data, "goal")
        /\ json_loads(bus[Len(bus)].payload).ok
        /\ Get(json_loads(bus[Len(bus)].payload).v, "data", None) = results[k].data

(***************************************************************************)
(* Properties of the HTTP client functions                                 *)
(***************************************************************************)
\* C24: validate_user answers a 404 response with ValueError "User <id> not
\* found", a connection failure or a timeout with ConnectionError "User
\* service unavailable", any other error status with the HTTPStatusError of
\* that status as raised, and returns only for a successful response, and
\* then the decoded body.
C24_ValidateUserOutcomes ==
    \A k \in 1..Len(results) :
        results[k].fn = "validate_user"
            => LET o == results[k].outcome
                   r == results[k].result
               IN  /\ (o.kind = "response" /\ o.status = 404)
                          => r = Raised("ValueError", "User " \o results[k].id \o " not found")
                   /\ (o.kind = "error" /\ o.name \in {"ConnectError", "ConnectTimeout",
                                                        "ReadTimeout"})
                          => r = Raised("ConnectionError", "User service unavailable")
                   /\ (o.kind = "response" /\ o.status >= 400 /\ o.status # 404)
                          => r = Raised("HTTPStatusError", ToString(o.status))
                   /\ r.kind = "return"
                          => /\ o.kind = "response" /\ o.status = 200
                             /\ json_loads(o.body) = [ok |-> TRUE, v |-> r.value]

\* one call met a 500 response and re-raised it, the next a 404
C24_Witness ==
    /\ Len(results) = 2
    /\ results[1].fn = "validate_user"
    /\ results[1].outcome.kind = "response"
    /\ results[1].outcome.status = 500
    /\ results[1].result.type = "HTTPStatusError"
    /\ results[2].fn = "validate_user"
    /\ results[2].outcome.kind = "response"
    /\ results[2].outcome.status = 404
    /\ results[2].result.type = "ValueError"

\* C25: get_booking_details and get_program_details never raise: an error
\* status (404 included), a connection error, a timeout, any other
\* transport error and a body that is not JSON all end in None being
\* returned, and a value other than None is returned only for a successful
\* response, and is its decoded body.
C25_DetailsNeverRaise ==
    \A k \in 1..Len(results) :
        results[k].fn \in {"get_booking_details", "get_program_details"}
            => LET o == results[k].outcome
                   r == results[k].result
               IN  /\ r.kind = "return"
                   /\ (o.kind = "error" \/ o.status >= 400) => r.value = None
                   /\ r.value # None
                          => /\ o.kind = "response" /\ o.status = 200
                             /\ json_loads(o.body) = [ok |-> TRUE, v |-> r.value]

\* get_booking_details met a timeout and returned None, get_program_details
\* a successful response and returned its body
C25_Witness ==
    /\ Len(results) = 2
    /\ results[1].fn = "get_booking_details"
    /\ results[1].outcome = TransportError("ReadTimeout")
    /\ results[1].result = Returned(None)
    /\ results[2].fn = "get_program_details"
    /\ results[2].outcome.kind = "response"
    /\ results[2].result.kind = "return"
    /\ results[2].result.value # None

(***************************************************************************)
(* Properties of the reconciliation core as a whole                        *)
(***************************************************************************)
\* what a failing store operation is logged as
StoreErrors == {"PoolError", "PostgresError", "NotNullViolationError"}

\* C26: a store failure ends the invocation and drops the event. The step
\* in which a handler logs a store error leaves both tables and the bus
\* unchanged (no write, no publish, no dead-letter), returns the task to
\* listen() with no handler local kept (no retry), and is taken from a
\* position before the invocation's one insert: a step that inserts a
\* row is the invocation's last store operation. A handler is entered again
\* only by a step that takes a message from the bus.
C26_StoreFailureDropsEvent ==
    [][\A i \in Instances :
        /\ (/\ last_log'[i].msg \in {"Error handling booking.completed event",
                                     "Error handling program.completed event"}
            /\ last_log'[i].detail \in StoreErrors
            /\ last_log'[i] # last_log[i])
               => /\ pc[i] \in {"listen", "bc_fetchval", "bc_execute", "pc_fetchrow"}
                  /\ UNCHANGED <<workout_logs, achievements, bus, bus_attempts>>
                  /\ pc'[i] = "listen"
                  /\ cur'[i] = None
        /\ (pc'[i] # pc[i] /\ (workout_logs' # workout_logs \/ achievements' # achievements))
               => \/ pc[i] = "bc_execute" /\ pc'[i] = "listen"
                  \/ pc[i] = "pc_fetchrow" /\ pc'[i] = "pc_publish"
        /\ (pc'[i] \in {"bc_fetchval", "pc_fetchrow"} /\ pc'[i] # pc[i])
               => received' = received + 1
      ]_vars

\* the insert for b1 failed and left no row; the bus delivered the event
\* again and this time the handler is at its insert, the store still empty
C26_Witness ==
    /\ last_error["i1"] = Log("Error handling booking.completed event", "PostgresError")
    /\ received = 2
    /\ pc["i1"] = "bc_execute"
    /\ Get(cur["i1"], "booking_id", None) = Str("b1")
    /\ workout_logs = <<>>
    /\ achievements = <<>>
    /\ bus_attempts = 0

\* whether sequence s is the first Len(s) entries of sequence t
IsPrefix(s, t) == Len(s) <= Len(t) /\ SubSeq(t, 1, Len(s)) = s

\* C27: the handlers only append. Every step keeps every row of
\* workout_logs and of achievements where and as it was; a step of
\* handle_booking_completed leaves achievements unchanged and a step of
\* handle_program_completed leaves workout_logs unchanged.
C27_AppendOnly ==
    [][/\ IsPrefix(workout_logs, workout_logs')
       /\ IsPrefix(achievements, achievements')
       /\ \A i \in Instances :
           /\ (pc[i] \in {"bc_fetchval", "bc_execute"} /\ pc'[i] # pc[i])
                  => achievements' = achievements
           /\ (pc[i] \in {"pc_fetchrow", "pc_publish"} /\ pc'[i] # pc[i])
                  => workout_logs' = workout_logs
           /\ (pc[i] = "listen" /\ pc'[i] \in InHandler)
                  => workout_logs' = workout_logs /\ achievements' = achievements
      ]_vars

\* the loop handled program.completed for c1 twice: the row of the first
\* invocation is still the first row, as inserted
C27_Witness ==
    /\ Len(achievements) = 2
    /\ achievements[1].id = Obj("achievements-1")
    /\ achievements[2].id = Obj("achievements-2")
    /\ achievements[1].client_id = Str("c1")
    /\ workout_logs = <<>>
    /\ pc["i1"] = "pc_publish"

\* C28: a bus message that is not a data message, or a data message whose
\* payload json.loads rejects, has no effect. The iteration that takes it
\* enters no handler, writes no row and publishes nothing; the first kind
\* is skipped in silence, the second is logged by the loop.
C28_IgnoredMessages ==
    [][\A i \in Instances : \A m \in InboundMessages :
          (Receive(i, m) /\ (m.type # "message" \/ ~json_loads(m.data).ok))
              => /\ UNCHANGED <<workout_logs, achievements, bus, bus_attempts>>
                 /\ pc'[i] = "listen"
                 /\ cur'[i] = None
                 /\ IF m.type # "message"
                      THEN last_log'[i] = last_log[i] /\ last_error'[i] = last_error[i]
                      ELSE last_log'[i] = Log("Error processing event", "JSONDecodeError")
      ]_vars

\* the loop took a payload that does not decode and then a subscription
\* confirmation: nothing was written or published, only the decode error
\* was logged
C28_Witness ==
    /\ received = 2
    /\ last_log["i1"] = Log("Error processing event", "JSONDecodeError")
    /\ pc["i1"] = "listen"
    /\ cur["i1"] = None
    /\ workout_logs = <<>> /\ achievements = <<>>
    /\ bus = <<>> /\ bus_attempts = 0

\* the positions on the bus of the achievement.earned messages
EarnedOnBus == {k \in 1..Len(bus) : bus[k].channel = "achievement.earned"}

\* C29: every achievement.earned message on the bus carries the id of a row
\* that is in the achievements table, no row has more than one message, and
\* there are never more such messages than rows.
C29_NoNotificationWithoutRow ==
    /\ \A k \in EarnedOnBus :
           \E r \in 1..Len(achievements) :
               SentAchievementId(bus[k]) = PyStr(achievements[r].id)
    /\ \A r \in 1..Len(achievements) :
           Cardinality({k \in EarnedOnBus :
                           SentAchievementId(bus[k]) = PyStr(achievements[r].id)}) <= 1
    /\ Cardinality(EarnedOnBus) <= Len(achievements)

\* two replicas handled program.completed side by side: both rows are in
\* the store and the one message delivered so far announces the second row
C29_Witness ==
    /\ Len(achievements) = 2
    /\ Len(bus) = 1
    /\ EarnedOnBus = {1}
    /\ SentAchievementId(bus[1]) = PyStr(achievements[2].id)
    /\ SentAchievementId(bus[1]) # PyStr(achievements[1].id)

(***************************************************************************)
(* Properties of the service lifecycle                                     *)
(***************************************************************************)
\* the positions at which the subscription task exists and has not ended
Running == {"subscribe", "listen"} \cup InHandler

\* C30: the subscription task exists only once db_pool and redis_client
\* have been set, it runs (subscribing, listening or inside a handler) only
\* while both are open, and neither is closed before the task has ended.
C30_LifecycleOrdering ==
    \A i \in Instances :
        /\ pc[i] # "not_created" => db_pool[i] # "None" /\ redis_client[i] # "None"
        /\ pc[i] \in Running => db_pool[i] = "open" /\ redis_client[i] = "open"
        /\ (db_pool[i] = "closed" \/ redis_client[i] = "closed")
               => /\ pc[i] \in {"finished", "cancelled"}
                  /\ lifespan[i] = "closed"

\* a whole life: started, a booking handled, cancelled at shutdown, and
\* the pool and the client closed after the task had ended
C30_Witness ==
    /\ lifespan["i1"] = "closed"
    /\ db_pool["i1"] = "closed" /\ redis_client["i1"] = "closed"
    /\ pc["i1"] = "cancelled"
    /\ Len(workout_logs) = 1

====
